---- MODULE Spec2Model ----
(***************************************************************************)
(* The capture session coordinator of src/js/recorder.js together with the *)
(* part of src/js/compositor.js it drives, as a state machine.             *)
(*                                                                         *)
(* JavaScript runs one task at a time: an action is one task, i.e. a call  *)
(* of an exported function up to its first await, the continuation of an   *)
(* async function after an awaited promise settles, or a platform event    *)
(* with the handlers it runs.                                              *)
(*                                                                         *)
(* Platform objects follow the W3C MediaStream Recording and Media Capture *)
(* specifications: MediaRecorder.stop() makes the recorder inactive at     *)
(* once and queues one task that fires dataavailable and then stop; an     *)
(* encoder failure is one task that makes the recorder inactive and fires  *)
(* error, dataavailable and stop; track.stop() fires no ended event.       *)
(***************************************************************************)
EXTENDS Integers, Sequences, FiniteSets, TLC

\* Bounds of the model.
MaxStarts == 2      \* invocations of startRecording
MaxStops == 2       \* invocations of stopRecording (by the caller or by onended)
MaxChunks == 1      \* bytes the live recorders have delivered in timeslices
MaxMics == 1        \* microphone streams the platform grants
MaxCameras == 1     \* camera streams the platform grants
MaxNow == 2         \* values of the clock, in ticks

\* Milliseconds of one second and of one clock tick (half a second).
SecondMs == 1000
TickMs == SecondMs \div 2

NULL == 0
Calls == 1 .. MaxStarts
StopCalls == 1 .. MaxStops

\* Stream objects: the call that acquires them names them.
DisplayOf(c) == 3 * (c - 1) + 1
MicOf(c) == 3 * (c - 1) + 2
CameraOf(c) == 3 * (c - 1) + 3
Streams == 1 .. (3 * MaxStarts)
OwnStreams(c) == {DisplayOf(c), MicOf(c), CameraOf(c)}

\* Where a constructor or method of the platform may throw in startRecording.
Failures == {"none", "AudioContext", "MediaRecorder", "start"}

VARIABLES
    \* module state of recorder.js
    mediaRecorder, recordedChunks, displayStream, micStream, cameraStream,
    audioContext, startTime,
    \* module state of compositor.js
    animationId, displayVideo, cameraVideo, outputStream,
    \* platform objects
    streams,      \* MediaStream: acquired, times its tracks were stopped, ...
    contexts,     \* AudioContext: created, times closed
    recorders,    \* MediaRecorder: state, pending stop task, handlers, chunks
    videoEl,      \* <video> elements of startCompositing: srcObject
    rafPending,   \* requestAnimationFrame callbacks not yet run
    \* control
    calls,        \* startRecording invocations
    stopCalls,    \* stopRecording invocations whose promise is pending
    event,        \* what the last task delivered to a caller
    \* the callers of the module
    app,          \* app.js: view state, buttons, timer, handlers' locals
    fn            \* a call of a function outside the recorder, with its state

heapVars == <<mediaRecorder, recordedChunks, displayStream, micStream,
              cameraStream, audioContext, startTime, animationId, displayVideo,
              cameraVideo, outputStream, streams, contexts, recorders, videoEl,
              rafPending>>
recorderVars == <<heapVars, calls, stopCalls, event>>
vars == <<recorderVars, app, fn>>

\* The mutable objects as one value, so that a synchronous run of code is a
\* composition of functions on it.
Heap ==
    [mediaRecorder |-> mediaRecorder, recordedChunks |-> recordedChunks,
     displayStream |-> displayStream, micStream |-> micStream,
     cameraStream |-> cameraStream, audioContext |-> audioContext,
     startTime |-> startTime, animationId |-> animationId,
     displayVideo |-> displayVideo, cameraVideo |-> cameraVideo,
     outputStream |-> outputStream, streams |-> streams, contexts |-> contexts,
     recorders |-> recorders, videoEl |-> videoEl, rafPending |-> rafPending]

SetHeap(h) ==
    /\ mediaRecorder' = h.mediaRecorder
    /\ recordedChunks' = h.recordedChunks
    /\ displayStream' = h.displayStream
    /\ micStream' = h.micStream
    /\ cameraStream' = h.cameraStream
    /\ audioContext' = h.audioContext
    /\ startTime' = h.startTime
    /\ animationId' = h.animationId
    /\ displayVideo' = h.displayVideo
    /\ cameraVideo' = h.cameraVideo
    /\ outputStream' = h.outputStream
    /\ streams' = h.streams
    /\ contexts' = h.contexts
    /\ recorders' = h.recorders
    /\ videoEl' = h.videoEl
    /\ rafPending' = h.rafPending

NoStream == [acquired |-> FALSE, stops |-> 0, ended |-> FALSE, onended |-> FALSE]
NoContext == [created |-> FALSE, closes |-> 0]
NoRecorder == [state |-> "none", flush |-> FALSE, handler |-> NULL,
               accepted |-> 0, delivered |-> <<>>]
NoCall == [pc |-> "new", micDeviceId |-> FALSE, camera |-> FALSE,
           audioStreams |-> <<>>, reentrant |-> FALSE]
\* The promise of a stopRecording call, with the times its handlers ran cleanup.
NoStop == [status |-> "new", by |-> "none", rec |-> NULL, duration |-> 0,
           blob |-> <<>>, mimeType |-> NULL, err |-> "none", cleanups |-> 0]
\* A settled promise keeps nothing: its result went to the caller.
Settled == [NoStop EXCEPT !.status = "settled"]
\* Events: "returned" and "threw" end the startRecording call id; "accepted",
\* "rejected" and "resolved" are of a stopRecording call (id is its slot, or
\* NULL when it was rejected at once).
NoEvent == [kind |-> "none", id |-> NULL, by |-> "none", rec |-> NULL,
            duration |-> 0, blob |-> <<>>, mimeType |-> NULL, err |-> "none",
            cleanups |-> 0, delivered |-> <<>>]

InitRecorder ==
    /\ mediaRecorder = NULL
    /\ recordedChunks = <<>>
    /\ displayStream = NULL
    /\ micStream = NULL
    /\ cameraStream = NULL
    /\ audioContext = NULL
    /\ startTime = NULL
    /\ animationId = NULL
    /\ displayVideo = NULL
    /\ cameraVideo = NULL
    /\ outputStream = NULL
    /\ streams = [s \in Streams |-> NoStream]
    /\ contexts = [c \in Calls |-> NoContext]
    /\ recorders = [c \in Calls |-> NoRecorder]
    /\ videoEl = [c \in Calls |-> NULL]
    /\ rafPending = {}
    /\ calls = [c \in Calls |-> NoCall]
    /\ stopCalls = [s \in StopCalls |-> NoStop]
    /\ event = NoEvent

\* app.js before init() has run, and no function call under way.
NoApp == [state |-> "loading"]
NoFn == [op |-> "none"]

Init ==
    /\ InitRecorder
    /\ app = NoApp
    /\ fn = NoFn

----------------------------------------------------------------------------
\* compositor.js

\* A requestAnimationFrame handle that names no pending callback.
NewFrame(h) ==
    CHOOSE n \in 1 .. (Cardinality(h.rafPending) + 1) : n \notin h.rafPending

\* render: draw, then schedule the next tick.  A null displayVideo makes the
\* read of displayVideo.readyState throw before anything is scheduled.
render(h) ==
    IF h.displayVideo = NULL THEN h
    ELSE LET n == NewFrame(h)
         IN [h EXCEPT !.animationId = n, !.rafPending = @ \cup {n}]

\* startCompositing up to the promise it returns: binds the two surfaces.
startCompositing(h, c) ==
    [h EXCEPT !.displayVideo = c, !.videoEl[c] = h.displayStream,
              !.cameraVideo = IF h.cameraStream # NULL THEN c ELSE @]

\* displayVideo.onloadedmetadata: size the canvas, start the render loop,
\* capture the canvas.  It reads the module's displayVideo.
onloadedmetadata(h, c) == [render(h) EXCEPT !.outputStream = c]

\* stopCompositing, lines 134-137: cancel the pending frame.
cancelFrame(h) ==
    IF h.animationId # NULL
    THEN [h EXCEPT !.rafPending = @ \ {h.animationId}, !.animationId = NULL]
    ELSE h

\* stopCompositing, lines 139-142: unbind and drop the display surface.
dropDisplayVideo(h) ==
    IF h.displayVideo # NULL
    THEN [h EXCEPT !.videoEl[h.displayVideo] = NULL, !.displayVideo = NULL]
    ELSE h

\* stopCompositing, lines 144-147: drop the camera surface.
dropCameraVideo(h) ==
    IF h.cameraVideo # NULL THEN [h EXCEPT !.cameraVideo = NULL] ELSE h

stopCompositing(h) ==
    [dropCameraVideo(dropDisplayVideo(cancelFrame(h))) EXCEPT
        !.outputStream = NULL]

----------------------------------------------------------------------------
\* recorder.js

\* stream.getTracks().forEach(track => track.stop()): a stopped track fires
\* no event, so its handler is dropped with it.
stopTracks(h, s) ==
    [h EXCEPT !.streams[s].stops = @ + 1, !.streams[s].onended = FALSE]

\* cleanup, lines 238-241
releaseDisplay(h) ==
    IF h.displayStream # NULL
    THEN [stopTracks(h, h.displayStream) EXCEPT !.displayStream = NULL]
    ELSE h

\* cleanup, lines 243-246
releaseMic(h) ==
    IF h.micStream # NULL
    THEN [stopTracks(h, h.micStream) EXCEPT !.micStream = NULL]
    ELSE h

\* cleanup, lines 248-251
releaseCamera(h) ==
    IF h.cameraStream # NULL
    THEN [stopTracks(h, h.cameraStream) EXCEPT !.cameraStream = NULL]
    ELSE h

\* cleanup, lines 253-256
closeAudioContext(h) ==
    IF h.audioContext # NULL
    THEN [h EXCEPT !.contexts[h.audioContext].closes = @ + 1,
                   !.audioContext = NULL]
    ELSE h

\* A cleanup that leaves startTime as it is.
cleanupKeepingStartTime(h) ==
    [closeAudioContext(releaseCamera(releaseMic(releaseDisplay(
         stopCompositing(h))))) EXCEPT
        !.mediaRecorder = NULL, !.recordedChunks = <<>>]

cleanup(h) ==
    [closeAudioContext(releaseCamera(releaseMic(releaseDisplay(
         stopCompositing(h))))) EXCEPT
        !.mediaRecorder = NULL, !.recordedChunks = <<>>, !.startTime = NULL]

\* combineAudioTracks: a new AudioContext replaces the module's reference.
combineAudioTracks(h, c) ==
    [h EXCEPT !.audioContext = c, !.contexts[c].created = TRUE]

\* The catch block of startRecording: cleanup, then rethrow.
Throw(h, e) == [h |-> cleanup(h), pc |-> "threw", err |-> e]

\* Lines 188-193: start the recorder, take the start time, return.
Started(h, c, fail, t) ==
    IF fail = "start" THEN Throw(h, "NotSupportedError")
    ELSE [h |-> [h EXCEPT !.recorders[c].state = "recording", !.startTime = t],
          pc |-> "returned", err |-> "none"]

\* Lines 172-185: set the handlers; the display track is read from the
\* module's displayStream.
Wired(h, c, fail, t) ==
    IF h.displayStream = NULL THEN Throw(h, "TypeError")
    ELSE Started([h EXCEPT !.streams[h.displayStream].onended = TRUE],
                 c, fail, t)

\* Lines 165-170: reset the chunks, construct the recorder.
Constructed(h, c, fail, t) ==
    IF fail = "MediaRecorder" THEN Throw(h, "NotSupportedError")
    ELSE Wired([h EXCEPT !.mediaRecorder = c,
                         !.recorders[c].state = "inactive"], c, fail, t)

\* Lines 156-163: the video track of the chosen video stream.
Combined(h, c, videoStream, fail, t) ==
    IF videoStream = NULL THEN Throw(h, "TypeError")
    ELSE Constructed([h EXCEPT !.recordedChunks = <<>>], c, fail, t)

\* Lines 153-194: build the final stream, construct and start the recorder.
Encode(h, c, audioStreams, videoStream, fail, t) ==
    IF Len(audioStreams) > 0
    THEN IF fail = "AudioContext" THEN Throw(h, "NotSupportedError")
         ELSE Combined(combineAudioTracks(h, c), c, videoStream, fail, t)
    ELSE Combined(h, c, videoStream, fail, t)

\* Lines 144-151: composite when the module holds a camera stream.
AfterCamera(h, c, audioStreams, fail, t) ==
    IF h.cameraStream # NULL
    THEN [h |-> startCompositing(h, c), pc |-> "composite", err |-> "none"]
    ELSE Encode(h, c, audioStreams, h.displayStream, fail, t)

\* Lines 129-142: request the camera when enabled and selected.
AfterMic(h, c, camera, audioStreams, fail, t) ==
    IF camera
    THEN [h |-> h, pc |-> "camera", err |-> "none"]
    ELSE AfterCamera(h, c, audioStreams, fail, t)

\* A session is in progress for the module: what stopRecording tests.
Recording(h) ==
    /\ h.mediaRecorder # NULL
    /\ h.recorders[h.mediaRecorder].state # "inactive"

\* Math.floor(ms / 1000): whole seconds, the fraction dropped.
TruncSeconds(ms) == ms \div SecondMs

\* Math.round(ms / 1000): the nearest whole second, a half rounds up.
RoundSeconds(ms) == (ms + (SecondMs \div 2)) \div SecondMs

\* Math.round((Date.now() - startTime) / 1000), the clock in ticks.
Duration(t, t0) == RoundSeconds((t - t0) * TickMs)

\* new Blob(recordedChunks): the concatenation of the chunks' bytes.
RECURSIVE Blob(_)
Blob(chunks) ==
    IF chunks = <<>> THEN <<>> ELSE Head(chunks) \o Blob(Tail(chunks))

\* mediaRecorder.ondataavailable
ondataavailable(h, data) ==
    IF Len(data) > 0
    THEN [h EXCEPT !.recordedChunks = Append(@, data)]
    ELSE h

\* A stopRecording that tears down before it rejects.
stopRecordingTearingDown(h, s, by, t) ==
    IF ~Recording(h)
    THEN [h |-> cleanup(h),
          call |-> [NoStop EXCEPT !.status = "rejected", !.by = by,
                                  !.err = "NoActiveRecording"]]
    ELSE [h |-> [h EXCEPT !.recorders[h.mediaRecorder].handler = s,
                          !.recorders[h.mediaRecorder].accepted = @ + 1,
                          !.recorders[h.mediaRecorder].state = "inactive",
                          !.recorders[h.mediaRecorder].flush = TRUE],
          call |-> [NoStop EXCEPT !.status = "pending", !.by = by,
                                  !.rec = h.mediaRecorder,
                                  !.duration = Duration(t, h.startTime)]]

\* A stopRecording whose guard tests the reference only, not the state.
stopRecordingUnlessNull(h, s, by, t) ==
    IF h.mediaRecorder = NULL
    THEN [h |-> h,
          call |-> [NoStop EXCEPT !.status = "rejected", !.by = by,
                                  !.err = "NoActiveRecording"]]
    ELSE [h |-> [h EXCEPT !.recorders[h.mediaRecorder].handler = s,
                          !.recorders[h.mediaRecorder].accepted = @ + 1,
                          !.recorders[h.mediaRecorder].state = "inactive",
                          !.recorders[h.mediaRecorder].flush = TRUE],
          call |-> [NoStop EXCEPT !.status = "pending", !.by = by,
                                  !.rec = h.mediaRecorder,
                                  !.duration = Duration(t, h.startTime)]]

\* The body of stopRecording's promise executor, for the stop call s.
stopRecording(h, s, by, t) ==
    IF ~Recording(h)
    THEN [h |-> h,
          call |-> [NoStop EXCEPT !.status = "rejected", !.by = by,
                                  !.err = "NoActiveRecording"]]
    ELSE [h |-> [h EXCEPT !.recorders[h.mediaRecorder].handler = s,
                          !.recorders[h.mediaRecorder].accepted = @ + 1,
                          !.recorders[h.mediaRecorder].state = "inactive",
                          !.recorders[h.mediaRecorder].flush = TRUE],
          call |-> [NoStop EXCEPT !.status = "pending", !.by = by,
                                  !.rec = h.mediaRecorder,
                                  !.duration = Duration(t, h.startTime)]]

\* mediaRecorder.onstop as set by the stop call sc (a record of stopCalls):
\* reading mediaRecorder.mimeType throws when the module's reference is null.
onstop(h, sc) ==
    IF h.mediaRecorder = NULL
    THEN [h |-> h, call |-> sc]
    ELSE [h |-> cleanup(h),
          call |-> IF sc.status = "pending"
                   THEN [sc EXCEPT !.status = "resolved",
                                   !.blob = Blob(h.recordedChunks),
                                   !.mimeType = h.mediaRecorder,
                                   !.cleanups = @ + 1]
                   ELSE [sc EXCEPT !.cleanups = @ + 1]]

\* mediaRecorder.onerror as set by the stop call sc.
onerror(h, sc) ==
    [h |-> cleanup(h),
     call |-> IF sc.status = "pending"
              THEN [sc EXCEPT !.status = "rejected", !.err = "EncodingFailure",
                              !.cleanups = @ + 1]
              ELSE [sc EXCEPT !.cleanups = @ + 1]]

\* The display track's onended handler; s is the next stop call.
onended(h, s, t) ==
    IF Recording(h)
    THEN stopRecording(h, s, "onended", t)
    ELSE [h |-> h, call |-> NoStop]

----------------------------------------------------------------------------
\* Actions

InFlight(c) == calls[c].pc \in {"display", "mic", "camera", "composite"}

\* A session exists: a start is under way, or the recorder the module refers
\* to is recording or waits for its stop event.
SessionActive ==
    \/ \E c \in Calls : InFlight(c)
    \/ /\ mediaRecorder # NULL
       /\ \/ recorders[mediaRecorder].state = "recording"
          \/ recorders[mediaRecorder].flush

\* The accepted stop calls take the slots in order.
HasNextStop == \E s \in StopCalls : stopCalls[s].status = "new"
NextStop ==
    CHOOSE s \in StopCalls :
        /\ stopCalls[s].status = "new"
        /\ \A u \in StopCalls : u < s => stopCalls[u].status # "new"

\* Date.now() in ticks.  The code uses the clock only in Date.now() - startTime,
\* so the clock is counted from the last assignment of startTime: that one
\* reads StartTick, and a later read any value from startTime on.
StartTick == 1
Clock == StartTick .. MaxNow

StartEvent(c, r) ==
    IF r.pc \in {"returned", "threw"}
    THEN [NoEvent EXCEPT !.kind = r.pc, !.id = c, !.err = r.err]
    ELSE NoEvent

\* What the promise p of the stop call in slot s tells its caller; with it,
\* the bytes its recorder has delivered by then.
StopEvent(s, p, delivered) ==
    [kind |-> IF p.status = "pending" THEN "accepted" ELSE p.status,
     id |-> s, by |-> p.by, rec |-> p.rec, duration |-> p.duration,
     blob |-> p.blob, mimeType |-> p.mimeType, err |-> p.err,
     cleanups |-> p.cleanups, delivered |-> delivered]

\* The call c goes on as r says; its locals die when it returns or throws.
Finish(c, as, r) ==
    /\ SetHeap(r.h)
    /\ calls' = [calls EXCEPT ![c] =
            IF r.pc \in {"returned", "threw"}
            THEN [NoCall EXCEPT !.pc = r.pc, !.reentrant = calls[c].reentrant]
            ELSE [@ EXCEPT !.pc = r.pc, !.audioStreams = as]]
    /\ event' = StartEvent(c, r)
    /\ UNCHANGED stopCalls

\* startRecording(options), up to the await of getDisplayMedia.  The options
\* are constants of the call: camera is cameraEnabled && cameraDeviceId, the
\* test of line 130.
StartRecording(c, mic, enabled, cam) ==
    /\ calls[c].pc = "new"
    /\ \A d \in Calls : d < c => calls[d].pc # "new"
    /\ calls' = [calls EXCEPT ![c] = [NoCall EXCEPT !.pc = "display",
                                                   !.micDeviceId = mic,
                                                   !.camera = enabled /\ cam,
                                                   !.reentrant = SessionActive]]
    /\ event' = NoEvent
    /\ UNCHANGED <<heapVars, stopCalls>>

\* getDisplayMedia resolves: lines 95-113.
DisplayResolved(c, audio, t) ==
    /\ calls[c].pc = "display"
    /\ LET d == DisplayOf(c)
           h1 == [Heap EXCEPT !.displayStream = d, !.streams[d].acquired = TRUE]
           as == IF audio THEN <<d>> ELSE <<>>
       IN \E r \in {IF calls[c].micDeviceId
                    THEN [h |-> h1, pc |-> "mic", err |-> "none"]
                    ELSE AfterMic(h1, c, calls[c].camera, as, fail, t) :
                    fail \in Failures} : Finish(c, as, r)

\* getDisplayMedia rejects: the catch block.
DisplayRejected(c, e) ==
    /\ calls[c].pc = "display"
    /\ Finish(c, <<>>, Throw(Heap, e))

\* getUserMedia for the microphone resolves: lines 115-123.
MicResolved(c, t) ==
    /\ calls[c].pc = "mic"
    /\ Cardinality({d \in Calls : streams[MicOf(d)].acquired}) < MaxMics
    /\ LET m == MicOf(c)
           h1 == [Heap EXCEPT !.micStream = m, !.streams[m].acquired = TRUE]
           as == Append(calls[c].audioStreams, m)
       IN \E r \in {AfterMic(h1, c, calls[c].camera, as, fail, t) :
                    fail \in Failures} : Finish(c, as, r)

\* A microphone failure that reaches the catch block of startRecording.
MicRejectedFatal(c, t) ==
    /\ calls[c].pc = "mic"
    /\ Finish(c, calls[c].audioStreams, Throw(Heap, "NotFoundError"))

\* getUserMedia for the microphone rejects: logged, lines 124-126.
MicRejected(c, t) ==
    /\ calls[c].pc = "mic"
    /\ \E r \in {AfterMic(Heap, c, calls[c].camera, calls[c].audioStreams, fail, t) :
                 fail \in Failures} : Finish(c, calls[c].audioStreams, r)

\* getUserMedia for the camera resolves: lines 132-138.
CameraResolved(c, t) ==
    /\ calls[c].pc = "camera"
    /\ Cardinality({d \in Calls : streams[CameraOf(d)].acquired}) < MaxCameras
    /\ LET k == CameraOf(c)
           h1 == [Heap EXCEPT !.cameraStream = k, !.streams[k].acquired = TRUE]
       IN \E r \in {AfterCamera(h1, c, calls[c].audioStreams, fail, t) :
                    fail \in Failures} : Finish(c, calls[c].audioStreams, r)

\* getUserMedia for the camera rejects: logged, lines 139-141.
CameraRejected(c, t) ==
    /\ calls[c].pc = "camera"
    /\ \E r \in {AfterCamera(Heap, c, calls[c].audioStreams, fail, t) :
                 fail \in Failures} : Finish(c, calls[c].audioStreams, r)

\* The display <video> of call c reports its dimensions: the handler of
\* startCompositing runs and startRecording resumes at line 148.  A handler
\* that finds displayVideo null throws and never resolves the promise.
LoadedMetadata(c, t) ==
    /\ calls[c].pc = "composite"
    /\ videoEl[c] # NULL
    /\ streams[videoEl[c]].stops = 0
    /\ ~streams[videoEl[c]].ended
    /\ IF displayVideo = NULL
       THEN /\ calls' = [calls EXCEPT ![c].pc = "hung"]
            /\ event' = NoEvent
            /\ UNCHANGED <<heapVars, stopCalls>>
       ELSE \E r \in {Encode(onloadedmetadata(Heap, c), c,
                           calls[c].audioStreams, c, fail, t) :
                    fail \in Failures} : Finish(c, calls[c].audioStreams, r)

\* A requestAnimationFrame callback runs.
RenderTick(n) ==
    /\ n \in rafPending
    /\ SetHeap(render([Heap EXCEPT !.rafPending = @ \ {n}]))
    /\ event' = NoEvent
    /\ UNCHANGED <<calls, stopCalls>>

\* A stopRecording call ended as r says: a pending promise takes the slot s.
Stopped(s, r) ==
    /\ SetHeap(r.h)
    /\ stopCalls' = IF r.call.status = "pending"
                    THEN [stopCalls EXCEPT ![s] = r.call]
                    ELSE stopCalls
    /\ event' = StopEvent(IF r.call.status = "pending" THEN s ELSE NULL, r.call,
                           <<>>)

\* The caller invokes stopRecording().
StopRecording(t) ==
    /\ HasNextStop
    /\ t >= startTime
    /\ Stopped(NextStop, stopRecording(Heap, NextStop, "caller", t))
    /\ UNCHANGED calls

\* The user ends the sharing: the display track d ends and its onended
\* handler, if any, runs.
TrackEnded(d, t) ==
    /\ \E c \in Calls : d = DisplayOf(c)
    /\ streams[d].acquired
    /\ streams[d].stops = 0
    /\ ~streams[d].ended
    /\ t >= startTime
    /\ LET h1 == [Heap EXCEPT !.streams[d].ended = TRUE,
                              !.streams[d].onended = FALSE]
       IN IF streams[d].onended /\ Recording(h1)
          THEN /\ HasNextStop
               /\ Stopped(NextStop, onended(h1, NextStop, t))
          ELSE /\ SetHeap(h1)
               /\ event' = NoEvent
               /\ UNCHANGED stopCalls
    /\ UNCHANGED calls

\* The bytes of the next chunk of recorder r: none, or one new byte.
ChunkData(r, size) ==
    IF size = 0 THEN <<>> ELSE << <<r, Len(recorders[r].delivered) + 1>> >>

\* A timeslice of recorder r is over: dataavailable.
EncoderData(r, size) ==
    /\ recorders[r].state = "recording"
    /\ Cardinality({x \in Calls \X (1 .. MaxChunks) :
                        x[2] <= Len(recorders[x[1]].delivered)}) < MaxChunks
    /\ LET data == ChunkData(r, size)
           h1 == [Heap EXCEPT !.recorders[r].delivered = @ \o data]
       IN SetHeap(ondataavailable(h1, data))
    /\ event' = NoEvent
    /\ UNCHANGED <<calls, stopCalls>>

\* The last task of recorder r is over: the object fires no further event,
\* and what it held is dropped.
Dead(h, r) ==
    [h EXCEPT !.recorders[r].handler = NULL, !.recorders[r].delivered = <<>>]

\* The handlers of the stop call in slot s have run in the last task of
\* recorder r and left its promise as res.call.
Settle(s, r, res) ==
    /\ SetHeap(Dead(res.h, r))
    /\ stopCalls' = [stopCalls EXCEPT ![s] = IF res.call.status = "pending"
                                             THEN res.call
                                             ELSE Settled]
    /\ event' = IF res.call.status = "pending"
                THEN NoEvent
                ELSE StopEvent(s, res.call, res.h.recorders[r].delivered)

\* The task queued by stop(): dataavailable with the last bytes, then stop.
EncoderStop(r, size) ==
    /\ recorders[r].flush
    /\ LET data == ChunkData(r, size)
           s == recorders[r].handler
           h1 == [Heap EXCEPT !.recorders[r].delivered = @ \o data,
                              !.recorders[r].flush = FALSE]
       IN Settle(s, r, onstop(ondataavailable(h1, data), stopCalls[s]))
    /\ UNCHANGED calls

\* The encoder fails: the recorder becomes inactive and fires error,
\* dataavailable and stop in one task.  The handlers exist only if a stop
\* call has set them.
EncoderError(r, size) ==
    /\ recorders[r].state = "recording" \/ recorders[r].flush
    /\ LET data == ChunkData(r, size)
           s == recorders[r].handler
           h1 == [Heap EXCEPT !.recorders[r].delivered = @ \o data,
                              !.recorders[r].state = "inactive",
                              !.recorders[r].flush = FALSE]
       IN IF s = NULL
          THEN /\ SetHeap(Dead(ondataavailable(h1, data), r))
               /\ event' = NoEvent
               /\ UNCHANGED stopCalls
          ELSE LET e == onerror(h1, stopCalls[s])
               IN Settle(s, r, onstop(ondataavailable(e.h, data), e.call))
    /\ UNCHANGED calls

Next ==
    \/ \E c \in Calls, mic, enabled, cam \in BOOLEAN :
           StartRecording(c, mic, enabled, cam) /\ UNCHANGED <<app, fn>>
    \/ \E c \in Calls, audio \in BOOLEAN : DisplayResolved(c, audio, StartTick)
           /\ UNCHANGED <<app, fn>>
    \/ \E c \in Calls, e \in {"NotAllowedError", "NotFoundError"} :
           DisplayRejected(c, e) /\ UNCHANGED <<app, fn>>
    \/ \E c \in Calls : MicResolved(c, StartTick) /\ UNCHANGED <<app, fn>>
    \/ \E c \in Calls : MicRejected(c, StartTick) /\ UNCHANGED <<app, fn>>
    \/ \E c \in Calls : CameraResolved(c, StartTick) /\ UNCHANGED <<app, fn>>
    \/ \E c \in Calls : CameraRejected(c, StartTick) /\ UNCHANGED <<app, fn>>
    \/ \E c \in Calls : LoadedMetadata(c, StartTick) /\ UNCHANGED <<app, fn>>
    \/ \E n \in rafPending : RenderTick(n) /\ UNCHANGED <<app, fn>>
    \/ \E t \in Clock : StopRecording(t) /\ UNCHANGED <<app, fn>>
    \/ \E d \in Streams, t \in Clock : TrackEnded(d, t) /\ UNCHANGED <<app, fn>>
    \/ \E r \in Calls, size \in {0, 1} : EncoderData(r, size)
           /\ UNCHANGED <<app, fn>>
    \/ \E r \in Calls, size \in {0, 1} : EncoderStop(r, size)
           /\ UNCHANGED <<app, fn>>
    \/ \E r \in Calls, size \in {0, 1} : EncoderError(r, size)
           /\ UNCHANGED <<app, fn>>

Spec == Init /\ [][Next]_vars

----------------------------------------------------------------------------
\* app.js, the caller of the recorder module

\* getElapsedTime() read at the clock value t.
getElapsedTime(h, t) ==
    IF h.startTime = NULL THEN 0 ELSE Duration(t, h.startTime)

\* app.js once init() has shown the 'ready' view; the handlers' locals are
\* part of it: starting is the startRecording call handleStartRecording
\* awaits, stopping what handleStopRecording awaits ("stop": the promise of
\* stopRecording in slot; "save": storage.saveRecording), artifact its
\* {blob, duration} (none: <<>>), saveArgs what saveRecording was given.
\* alert is the message the last task showed, ticked whether the last task
\* was updateTimerDisplay, elapsed what that read from getElapsedTime.
ReadyApp ==
    [state |-> "ready", startDisabled |-> FALSE, stopDisabled |-> FALSE,
     timerInterval |-> FALSE, elapsed |-> 0, ticked |-> FALSE,
     alert |-> "none", starting |-> NULL, stopping |-> "idle", slot |-> NULL,
     artifact |-> <<>>, saveArgs |-> <<>>]

\* A task that shows no alert and reads no elapsed time.
Quiet(a) == [a EXCEPT !.alert = "none", !.ticked = FALSE]

\* handleStartRecording after the await of line 398: e is what the awaited
\* call delivered, t0 the startTime then.
handleStartSettled(a, e, t0, t) ==
    IF a.starting = NULL \/ e.id # a.starting THEN Quiet(a)
    ELSE IF e.kind = "returned"
    THEN [Quiet(a) EXCEPT !.state = "recording", !.timerInterval = TRUE,
                          !.elapsed = getElapsedTime([startTime |-> t0], t),
                          !.ticked = TRUE, !.starting = NULL]
    ELSE IF e.kind = "threw"
    THEN [a EXCEPT !.startDisabled = FALSE, !.starting = NULL,
                   !.ticked = FALSE,
                   !.alert = IF e.err = "NotAllowedError"
                             THEN "PermissionDenied" ELSE "FailedStart"]
    ELSE Quiet(a)

\* The catch and finally blocks of handleStopRecording.
handleStopFailed(a) ==
    [a EXCEPT !.alert = "FailedSave", !.ticked = FALSE, !.stopDisabled = FALSE,
              !.startDisabled = FALSE, !.stopping = "idle", !.slot = NULL,
              !.artifact = <<>>, !.saveArgs = <<>>]

\* handleStopRecording from the call of stopRecording (line 424) on, and
\* again when its promise settles: e is what the call or the settling task
\* delivered.
handleStopSettled(a, e) ==
    IF e.kind = "accepted" /\ a.stopping = "call"
    THEN [Quiet(a) EXCEPT !.stopping = "stop", !.slot = e.id]
    ELSE IF e.kind = "rejected" /\ (a.stopping = "call" \/
                                    (a.stopping = "stop" /\ a.slot = e.id))
    THEN handleStopFailed(a)
    ELSE IF e.kind = "resolved" /\ a.stopping = "stop" /\ a.slot = e.id
    THEN [Quiet(a) EXCEPT
             !.stopping = "save", !.slot = NULL,
             !.artifact = <<[blob |-> e.blob, duration |-> e.duration]>>,
             !.saveArgs = <<[blob |-> e.blob, duration |-> e.duration]>>]
    ELSE Quiet(a)

\* The click on the start button: handleStartRecording up to its await.
ClickStart(c, mic, enabled, cam) ==
    /\ app.state = "ready"
    /\ ~app.startDisabled
    /\ StartRecording(c, mic, enabled, cam)
    /\ app' = [Quiet(app) EXCEPT !.startDisabled = TRUE, !.starting = c]
    /\ UNCHANGED fn

\* The click on the stop button: handleStopRecording up to its await.
ClickStop(t) ==
    /\ app.state = "recording"
    /\ ~app.stopDisabled
    /\ StopRecording(t)
    /\ app' = handleStopSettled(
                  [app EXCEPT !.stopDisabled = TRUE, !.timerInterval = FALSE,
                              !.stopping = "call"], event')
    /\ UNCHANGED fn

\* storage.saveRecording resolves: the 'ready' view, then the finally block.
SaveResolved ==
    /\ app.stopping = "save"
    /\ app' = [Quiet(app) EXCEPT !.state = "ready", !.stopDisabled = FALSE,
                                 !.startDisabled = FALSE, !.stopping = "idle",
                                 !.artifact = <<>>, !.saveArgs = <<>>]
    /\ event' = NoEvent
    /\ UNCHANGED <<heapVars, calls, stopCalls, fn>>

\* storage.saveRecording rejects.
SaveRejected ==
    /\ app.stopping = "save"
    /\ app' = handleStopFailed(app)
    /\ event' = NoEvent
    /\ UNCHANGED <<heapVars, calls, stopCalls, fn>>

\* The interval callback updateTimerDisplay.
TimerTick(t) ==
    /\ app.timerInterval
    /\ t >= startTime
    /\ app' = [Quiet(app) EXCEPT !.elapsed = getElapsedTime(Heap, t),
                                 !.ticked = TRUE]
    /\ event' = NoEvent
    /\ UNCHANGED <<heapVars, calls, stopCalls, fn>>

AppInit ==
    /\ InitRecorder
    /\ app = ReadyApp
    /\ fn = NoFn

\* A task of the recorder module, and the handler of app.js it resumes.
AppResumed ==
    /\ app' = IF event'.kind \in {"returned", "threw"}
              THEN handleStartSettled(app, event', startTime', StartTick)
              ELSE handleStopSettled(app, event')
    /\ UNCHANGED fn

AppNext ==
    \/ \E c \in Calls, mic, enabled, cam \in BOOLEAN :
           ClickStart(c, mic, enabled, cam)
    \/ \E c \in Calls, audio \in BOOLEAN :
           DisplayResolved(c, audio, StartTick) /\ AppResumed
    \/ \E c \in Calls, e \in {"NotAllowedError", "NotFoundError"} :
           DisplayRejected(c, e) /\ AppResumed
    \/ \E c \in Calls : MicResolved(c, StartTick) /\ AppResumed
    \/ \E c \in Calls : MicRejected(c, StartTick) /\ AppResumed
    \/ \E c \in Calls : CameraResolved(c, StartTick) /\ AppResumed
    \/ \E c \in Calls : CameraRejected(c, StartTick) /\ AppResumed
    \/ \E c \in Calls : LoadedMetadata(c, StartTick) /\ AppResumed
    \/ \E n \in rafPending : RenderTick(n) /\ AppResumed
    \/ \E t \in Clock : ClickStop(t)
    \/ \E d \in Streams, t \in Clock : TrackEnded(d, t) /\ AppResumed
    \/ \E r \in Calls, size \in {0, 1} : EncoderData(r, size) /\ AppResumed
    \/ \E r \in Calls, size \in {0, 1} : EncoderStop(r, size) /\ AppResumed
    \/ \E r \in Calls, size \in {0, 1} : EncoderError(r, size) /\ AppResumed
    \/ SaveResolved
    \/ SaveRejected
    \/ \E t \in Clock : TimerTick(t)

AppSpec == AppInit /\ [][AppNext]_vars

----------------------------------------------------------------------------
\* Functions of recorder.js and compositor.js that touch no module state,
\* each applied to inputs drawn at the start.

\* Clock readings in milliseconds: startTime, then the time from it to the
\* stopRecording call, then the time the encoder takes to fire stop.
MaxStartMs == 2
MaxElapsedMs == 2600
FlushMs == {0, 1, SecondMs + TickMs}

\* stopRecording at t1 for a recorder started at t0, its stop event at t2.
DurationInputs ==
    {[op |-> "stopRecording", pc |-> "new", t0 |-> t0, t1 |-> t0 + e,
      t2 |-> t0 + e + f, duration |-> 0] :
        t0 \in 0 .. MaxStartMs, e \in 0 .. MaxElapsedMs, f \in FlushMs}

\* compositor.js, lines 11-13.  The size ratio 0.2 is the fraction 1/5.
CAMERA_SIZE_RATIO == [num |-> 1, den |-> 5]
CAMERA_MARGIN == 20
CAMERA_POSITION == "bottom-left"

\* Math.round of the fraction n / d, n >= 0 and d > 0: halves go up.
Round(n, d) == (2 * n + d) \div (2 * d)

\* The rectangle of drawCameraOverlay, with the margin left out.
drawCameraOverlayNoMargin(position, sizeRatio, canvas, video) ==
    LET cameraWidth == Round(canvas.width * sizeRatio.num, sizeRatio.den)
        cameraHeight == Round(cameraWidth * video.videoHeight, video.videoWidth)
    IN [width |-> cameraWidth, height |-> cameraHeight,
        x |-> IF position \in {"top-right", "bottom-right"}
              THEN canvas.width - cameraWidth
              ELSE 0,
        y |-> IF position \in {"top-left", "top-right"}
              THEN 0
              ELSE canvas.height - cameraHeight]

\* drawCameraOverlay, lines 73-116: the rectangle the camera is drawn into.
\* Any position other than the three named first is the default case.
drawCameraOverlay(position, sizeRatio, canvas, video) ==
    LET cameraWidth == Round(canvas.width * sizeRatio.num, sizeRatio.den)
        cameraHeight == Round(cameraWidth * video.videoHeight, video.videoWidth)
    IN [width |-> cameraWidth, height |-> cameraHeight,
        x |-> IF position \in {"top-right", "bottom-right"}
              THEN canvas.width - cameraWidth - CAMERA_MARGIN
              ELSE CAMERA_MARGIN,
        y |-> IF position \in {"top-left", "top-right"}
              THEN CAMERA_MARGIN
              ELSE canvas.height - cameraHeight - CAMERA_MARGIN]

\* The positions of the comment of line 13, and one that is none of them.
Positions == {"top-left", "top-right", "bottom-right", "bottom-left"}
Frames == {[width |-> 1280, height |-> 720], [width |-> 1920, height |-> 1080],
           [width |-> 1024, height |-> 768], [width |-> 1366, height |-> 768]}
\* Camera sources whose videoHeight / videoWidth is exact in binary floating
\* point (3/4, 9/16, 1), so that the product of line 75 is the exact one.
Cameras == {[videoWidth |-> 320, videoHeight |-> 240],
            [videoWidth |-> 1280, videoHeight |-> 720],
            [videoWidth |-> 512, videoHeight |-> 512]}
\* Size ratios in (0, 1]: the default, two others and the largest.
SizeRatios ==
    {CAMERA_SIZE_RATIO, [num |-> 1, den |-> 4], [num |-> 3, den |-> 8],
     [num |-> 1, den |-> 1]}
NoRect == [width |-> 0, height |-> 0, x |-> 0, y |-> 0]
OverlayInputs ==
    {[op |-> "drawCameraOverlay", pc |-> "new", position |-> p, sizeRatio |-> s,
      canvas |-> c, video |-> v, rect |-> NoRect] :
        p \in Positions \cup {"center"}, s \in SizeRatios, c \in Frames,
        v \in Cameras}

\* render, lines 57-69, with a camera that has frames: one overlay is drawn.
DrawOverlay ==
    /\ fn.op = "drawCameraOverlay"
    /\ fn.pc = "new"
    /\ fn' = [fn EXCEPT !.pc = "drawn",
                        !.rect = drawCameraOverlay(fn.position, fn.sizeRatio,
                                                   fn.canvas, fn.video)]
    /\ UNCHANGED <<recorderVars, app>>

\* getSupportedMimeType, lines 21-37.  isTypeSupported is the set of types
\* MediaRecorder.isTypeSupported answers true for.
types == <<"video/webm;codecs=vp9,opus", "video/webm;codecs=vp9",
           "video/webm;codecs=vp8,opus", "video/webm;codecs=vp8",
           "video/webm">>

RECURSIVE LastSupported(_, _)
LastSupported(isTypeSupported, i) ==
    IF i = 0 THEN "video/webm"
    ELSE IF types[i] \in isTypeSupported THEN types[i]
    ELSE LastSupported(isTypeSupported, i - 1)

\* The loop run from the end of the list.
getSupportedMimeTypeReversed(isTypeSupported) ==
    LastSupported(isTypeSupported, Len(types))

\* The for loop of lines 30-34 from entry i on, and the fallback of line 36.
RECURSIVE FirstSupported(_, _)
FirstSupported(isTypeSupported, i) ==
    IF i > Len(types) THEN "video/webm"
    ELSE IF types[i] \in isTypeSupported THEN types[i]
    ELSE FirstSupported(isTypeSupported, i + 1)

getSupportedMimeType(isTypeSupported) == FirstSupported(isTypeSupported, 1)

\* Every answer the platform can give for the five types.
MimeInputs ==
    {[op |-> "getSupportedMimeType", pc |-> "new", isTypeSupported |-> s,
      chosen |-> NULL, recorder |-> NULL, mimeType |-> NULL] :
        s \in SUBSET {types[i] : i \in DOMAIN types}}

\* Lines 166-172: the type is chosen and given to the MediaRecorder
\* constructor, which throws NotSupportedError for a type the platform cannot
\* record; the recorder's mimeType attribute is the type it was given.
MimeConstructed ==
    /\ fn.op = "getSupportedMimeType"
    /\ fn.pc = "new"
    /\ LET mimeType == getSupportedMimeType(fn.isTypeSupported)
       IN fn' = IF mimeType \in fn.isTypeSupported
                THEN [fn EXCEPT !.pc = "constructed", !.chosen = mimeType,
                                !.recorder = mimeType]
                ELSE [fn EXCEPT !.pc = "threw", !.chosen = mimeType]
    /\ UNCHANGED <<recorderVars, app>>

\* Lines 212-222: onstop reads mediaRecorder.mimeType and resolves with it.
\* The answers of isTypeSupported do not change while the page lives, so
\* every recorder of the page is constructed with the same type.
MimeResolved ==
    /\ fn.op = "getSupportedMimeType"
    /\ fn.pc = "constructed"
    /\ fn' = [fn EXCEPT !.pc = "resolved", !.mimeType = fn.recorder]
    /\ UNCHANGED <<recorderVars, app>>

\* getDevices, lines 40-68.  A text is the sequence of its characters.
Microphone == <<"M", "i", "c", "r", "o", "p", "h", "o", "n", "e", " ">>
Camera == <<"C", "a", "m", "e", "r", "a", " ">>

\* String.prototype.slice(0, n).
slice(s, n) == SubSeq(s, 1, IF Len(s) < n THEN Len(s) ELSE n)

\* The label with the whole id appended.
deviceLabelWholeId(d, name) == IF d.label # <<>> THEN d.label ELSE name \o d.deviceId

\* Lines 53 and 60: d.label || `<name> ${d.deviceId.slice(0, 8)}`.
deviceLabel(d, name) ==
    IF d.label # <<>> THEN d.label ELSE name \o slice(d.deviceId, 8)

\* Lines 49-61: filter by kind, then map to deviceId and label.
listDevices(devices, kind, name) ==
    LET found == SelectSeq(devices, LAMBDA d : d.kind = kind)
    IN [i \in DOMAIN found |->
           [deviceId |-> found[i].deviceId,
            label |-> deviceLabel(found[i], name)]]

MaxDevices == 2
DeviceIds == {<<>>, <<"a", "b", "c">>,
              <<"0", "1", "2", "3", "4", "5", "6", "7">>,
              <<"0", "1", "2", "3", "4", "5", "6", "7", "8", "9">>}
DeviceLabels == {<<>>, <<"U", "S", "B">>}
MediaDeviceInfo ==
    [kind : {"audioinput", "videoinput", "audiooutput"},
     deviceId : DeviceIds, label : DeviceLabels]
DeviceLists ==
    UNION {[1 .. n -> MediaDeviceInfo] : n \in 0 .. MaxDevices}

\* What the platform does with the call: navigator.mediaDevices may be
\* missing; getUserMedia resolves with a stream of two tracks or rejects;
\* enumerateDevices resolves with a list or rejects.
NoTracks == [audio |-> [live |-> FALSE, stops |-> 0],
             video |-> [live |-> FALSE, stops |-> 0]]
NoDevices == [microphones |-> <<>>, cameras |-> <<>>]
DevicesInputs ==
    {[op |-> "getDevices", pc |-> "new", mediaDevices |-> md, probe |-> pr,
      enumeration |-> en, devices |-> ds, tracks |-> NoTracks,
      enumerated |-> FALSE, result |-> NoDevices] :
        md \in BOOLEAN, pr \in {"resolves", "rejects"},
        en \in {"resolves", "rejects"}, ds \in DeviceLists}

\* Lines 41-45: the call up to the first await.  Without
\* navigator.mediaDevices line 43 throws a TypeError inside the try block.
GetDevices ==
    /\ fn.op = "getDevices"
    /\ fn.pc = "new"
    /\ fn' = IF fn.mediaDevices
             THEN [fn EXCEPT !.pc = "probe"]
             ELSE [fn EXCEPT !.pc = "returned", !.result = NoDevices]
    /\ UNCHANGED <<recorderVars, app>>

\* Lines 43-47: the probe resolves, its then-callback stops every track, and
\* enumerateDevices is called.
ProbeResolved ==
    /\ fn.op = "getDevices"
    /\ fn.pc = "probe"
    /\ fn.probe = "resolves"
    /\ fn' = [fn EXCEPT !.pc = "enumerate", !.enumerated = TRUE,
                        !.tracks = [k \in {"audio", "video"} |->
                                        [live |-> TRUE, stops |-> 1]]]
    /\ UNCHANGED <<recorderVars, app>>

\* Lines 45-47: the probe rejects, the catch callback swallows the error,
\* and enumerateDevices is called.
ProbeRejected ==
    /\ fn.op = "getDevices"
    /\ fn.pc = "probe"
    /\ fn.probe = "rejects"
    /\ fn' = [fn EXCEPT !.pc = "enumerate", !.enumerated = TRUE]
    /\ UNCHANGED <<recorderVars, app>>

\* Lines 47-63: the list arrives and the two lists are returned.
EnumerateResolved ==
    /\ fn.op = "getDevices"
    /\ fn.pc = "enumerate"
    /\ fn.enumeration = "resolves"
    /\ fn' = [fn EXCEPT !.pc = "returned",
                        !.result = [microphones |->
                                        listDevices(fn.devices, "audioinput",
                                                    Microphone),
                                    cameras |->
                                        listDevices(fn.devices, "videoinput",
                                                    Camera)]]
    /\ UNCHANGED <<recorderVars, app>>

\* Lines 64-67: enumerateDevices rejects and the catch block returns empty
\* lists.
EnumerateRejected ==
    /\ fn.op = "getDevices"
    /\ fn.pc = "enumerate"
    /\ fn.enumeration = "rejects"
    /\ fn' = [fn EXCEPT !.pc = "returned", !.result = NoDevices]
    /\ UNCHANGED <<recorderVars, app>>

\* The audio of startRecording, lines 104-163, and combineAudioTracks, lines
\* 71-83.  A stream is its name and the sequence of its audio tracks; a track
\* is the pair of its stream's name and its number.
MaxTracks == 2
AudioTracks(name, n) == [i \in 1 .. n |-> <<name, i>>]

\* The connections made for the streams: one per track, lines 75-80.
RECURSIVE Connect(_)
Connect(audioStreams) ==
    IF audioStreams = <<>> THEN <<>>
    ELSE Head(audioStreams).audioTracks \o Connect(Tail(audioStreams))

\* The connections when only the first track of each stream is taken.
RECURSIVE ConnectFirst(_)
ConnectFirst(audioStreams) ==
    IF audioStreams = <<>> THEN <<>>
    ELSE <<Head(audioStreams).audioTracks[1]>>
             \o ConnectFirst(Tail(audioStreams))

mixFirstTracks(audioStreams) ==
    [contexts |-> 1, destinations |-> 1,
     connections |-> ConnectFirst(audioStreams), audioTracks |-> 1]

\* combineAudioTracks: one AudioContext, one destination, the connections,
\* and the destination's stream with its one audio track.
mixAudioTracks(audioStreams) ==
    [contexts |-> 1, destinations |-> 1, connections |-> Connect(audioStreams),
     audioTracks |-> 1]

\* Lines 153-163 without a mixer: the video tracks only.
NoMix == [contexts |-> 0, destinations |-> 0, connections |-> <<>>,
          audioTracks |-> 0]

\* The display stream's audio tracks, the micDeviceId option, the answer to
\* the microphone request and the granted stream's audio tracks.
MixInputs ==
    {[op |-> "combineAudioTracks", pc |-> "new", displayAudio |-> da,
      micDeviceId |-> md, micGranted |-> mg, micAudio |-> ma,
      audioStreams |-> <<>>, final |-> NoMix] :
        da \in 0 .. MaxTracks, md \in BOOLEAN, mg \in BOOLEAN,
        ma \in 1 .. MaxTracks}

\* Lines 104-127: collect the streams that carry audio.
AudioCollected ==
    /\ fn.op = "combineAudioTracks"
    /\ fn.pc = "new"
    /\ LET display == [name |-> "display",
                       audioTracks |-> AudioTracks("display", fn.displayAudio)]
           mic == [name |-> "mic",
                   audioTracks |-> AudioTracks("mic", fn.micAudio)]
           fromDisplay == IF Len(display.audioTracks) > 0
                          THEN <<display>> ELSE <<>>
           fromMic == IF fn.micDeviceId /\ fn.micGranted
                      THEN <<mic>> ELSE <<>>
       IN fn' = [fn EXCEPT !.pc = "collected",
                           !.audioStreams = fromDisplay \o fromMic]
    /\ UNCHANGED <<recorderVars, app>>

\* Lines 153-163: the final stream, mixed when a stream was collected.
AudioCombined ==
    /\ fn.op = "combineAudioTracks"
    /\ fn.pc = "collected"
    /\ fn' = [fn EXCEPT !.pc = "combined",
                        !.final = IF Len(fn.audioStreams) > 0
                                  THEN mixAudioTracks(fn.audioStreams)
                                  ELSE NoMix]
    /\ UNCHANGED <<recorderVars, app>>

\* The frame buffer of startCompositing, lines 40-54.  A <video> reports
\* videoWidth and videoHeight as non-negative integers, 0 while unknown.
VideoWidths == {0, 640, 1280}
VideoHeights == {0, 480, 720}

\* The canvas sized to what the surface reports, with no default.
sizeCanvasAsReported(video) ==
    [width |-> video.videoWidth, height |-> video.videoHeight]

\* Lines 43-44: displayVideo.videoWidth || 1920, displayVideo.videoHeight || 1080.
sizeCanvas(video) ==
    [width |-> IF video.videoWidth # 0 THEN video.videoWidth ELSE 1920,
     height |-> IF video.videoHeight # 0 THEN video.videoHeight ELSE 1080]

NoCanvas == [width |-> 0, height |-> 0]
CanvasInputs ==
    {[op |-> "startCompositing", pc |-> "new",
      video |-> [videoWidth |-> w, videoHeight |-> h], canvas |-> NoCanvas,
      rendering |-> FALSE] : w \in VideoWidths, h \in VideoHeights}

\* Lines 23-39: the surfaces are bound and the promise is returned.
CompositingStarted ==
    /\ fn.op = "startCompositing"
    /\ fn.pc = "new"
    /\ fn' = [fn EXCEPT !.pc = "pending"]
    /\ UNCHANGED <<recorderVars, app>>

\* Lines 41-53: onloadedmetadata sizes the canvas, starts the render loop
\* and resolves.
CompositingResolved ==
    /\ fn.op = "startCompositing"
    /\ fn.pc = "pending"
    /\ fn' = [fn EXCEPT !.pc = "resolved", !.canvas = sizeCanvas(fn.video),
                        !.rendering = TRUE]
    /\ UNCHANGED <<recorderVars, app>>

----------------------------------------------------------------------------
\* storage.js: the selected folder, the metadata store and the two calls
\* that read and shrink them.  A file name is the sequence of its pieces,
\* the extension last; a title is a name as well.
RecA == <<"a", ".webm">>
RecB == <<"b", ".webm">>
Gone == <<"gone", ".webm">>
NoName == <<>>

\* String.prototype.endsWith on a name.
endsWith(name, suffix) == name # <<>> /\ name[Len(name)] = suffix

\* JavaScript's x || y on numbers.
Or(x, y) == IF x # 0 THEN x ELSE y

\* What directoryHandle.values() yields; size and lastModified are those of
\* the File that entry.getFile() gives.
File(name, size, lastModified) ==
    [kind |-> "file", name |-> name, size |-> size,
     lastModified |-> lastModified]

Entries ==
    {File(RecA, s, l) : s \in {0, 5}, l \in {1, 3}}
        \cup {File(RecB, 5, 2), File(<<"notes", ".txt">>, 5, 3),
              [kind |-> "directory", name |-> RecB, size |-> 0,
               lastModified |-> 0]}

\* Folders of at most MaxEntries entries with distinct names, in the order
\* the directory yields them.
MaxEntries == 2
Folders ==
    {f \in UNION {[1 .. n -> Entries] : n \in 0 .. MaxEntries} :
        \A i, j \in DOMAIN f : f[i].name = f[j].name => i = j}

\* Lines 131-137: a record of the recordings store, keyed by filename.
Metadata(filename, duration, timestamp, title, size) ==
    [filename |-> filename, duration |-> duration, timestamp |-> timestamp,
     title |-> title, size |-> size]

\* The store empty, with a record of a.webm (with or without a duration),
\* and with a record whose file is no longer in the folder.
Stores ==
    {{}, {Metadata(RecA, 7, 4, <<"Demo">>, 5)}, {Metadata(RecA, 0, 4, <<"Demo">>, 5)},
     {Metadata(Gone, 7, 4, Gone, 5)},
     {Metadata(RecA, 7, 4, <<"Demo">>, 5), Metadata(Gone, 7, 4, Gone, 5)}}

\* What getVideoDuration resolves with: 0 when the file cannot be probed.
Probes == {0, 9}

\* Lines 194-200: the entries kept of the directory.
fileEntries(folder) ==
    SelectSeq(folder, LAMBDA e : e.kind = "file" /\ endsWith(e.name, ".webm"))

\* Lines 214-226: metadataMap.get(filename).
hasMeta(db, filename) == \E r \in db : r.filename = filename
dbMeta(db, filename) == CHOOSE r \in db : r.filename = filename

\* Line 232: dbMeta?.duration || 0.
storedDuration(db, file) ==
    IF hasMeta(db, file.name) THEN dbMeta(db, file.name).duration ELSE 0

\* Line 233: file.size || dbMeta?.size || 0.
sizeOf(db, file) ==
    Or(file.size, IF hasMeta(db, file.name) THEN dbMeta(db, file.name).size ELSE 0)

\* Line 234: dbMeta?.timestamp || file.lastModified || 0.
timestampOf(db, file) ==
    Or(IF hasMeta(db, file.name) THEN dbMeta(db, file.name).timestamp ELSE 0,
       file.lastModified)

\* Line 237: the duration is read from the file itself.
probed(db, file) == storedDuration(db, file) = 0 /\ file.size > 0

\* Lines 232-238: the stored duration, or the one getVideoDuration gives.
durationOf(db, probe, file) ==
    IF probed(db, file) THEN probe ELSE storedDuration(db, file)

\* Lines 252-258: the entry pushed for one file.
recording(db, probe, file) ==
    [filename |-> file.name,
     duration |-> durationOf(db, probe, file),
     timestamp |-> timestampOf(db, file),
     title |-> IF hasMeta(db, file.name) /\ dbMeta(db, file.name).title # <<>>
               THEN dbMeta(db, file.name).title
               ELSE file.name,
     size |-> sizeOf(db, file)]

\* Lines 241-249: a duration read from the file is put back into the store,
\* under the file's name as title.
backfill(store, db, probe, file) ==
    IF probed(db, file) /\ probe > 0
    THEN {r \in store : r.filename # file.name}
             \cup {Metadata(file.name, probe, timestampOf(db, file), file.name,
                            sizeOf(db, file))}
    ELSE store

\* The store after the loop of lines 224-259 over the files; db is the
\* metadataMap read before the loop.
RECURSIVE backfilled(_, _, _, _)
backfilled(store, db, probe, files) ==
    IF files = <<>>
    THEN store
    ELSE backfilled(backfill(store, db, probe, Head(files)), db, probe,
                    Tail(files))

\* Array.prototype.sort is stable: r goes behind the entries that do not
\* come after it.
RECURSIVE insertAscending(_, _)
insertAscending(r, sorted) ==
    IF sorted = <<>> \/ r.timestamp < Head(sorted).timestamp
    THEN <<r>> \o sorted
    ELSE <<Head(sorted)>> \o insertAscending(r, Tail(sorted))

RECURSIVE insertDescending(_, _)
insertDescending(r, sorted) ==
    IF sorted = <<>> \/ r.timestamp > Head(sorted).timestamp
    THEN <<r>> \o sorted
    ELSE <<Head(sorted)>> \o insertDescending(r, Tail(sorted))

\* The comparator with its operands exchanged: a.timestamp - b.timestamp.
RECURSIVE sortRecordingsAscending(_)
sortRecordingsAscending(recordings) ==
    IF recordings = <<>>
    THEN <<>>
    ELSE insertAscending(
             recordings[Len(recordings)],
             sortRecordingsAscending(SubSeq(recordings, 1, Len(recordings) - 1)))

\* Line 262: recordings.sort((a, b) => b.timestamp - a.timestamp).
RECURSIVE sortRecordings(_)
sortRecordings(recordings) ==
    IF recordings = <<>>
    THEN <<>>
    ELSE insertDescending(
             recordings[Len(recordings)],
             sortRecordings(SubSeq(recordings, 1, Len(recordings) - 1)))

\* Lines 223-264: one entry per file kept, sorted.
getRecordings(db, probe, files) ==
    sortRecordings([i \in 1 .. Len(files) |-> recording(db, probe, files[i])])

\* The module with a folder selected or not, before any call; at most one
\* deleteRecording is followed by at most one getRecordings.
StorageInputs ==
    {[op |-> "storage", pc |-> "idle", directoryHandle |-> h, probe |-> p,
      folder |-> f, db |-> d, metadataMap |-> {}, files |-> <<>>,
      outcome |-> "none", result |-> <<>>, filename |-> NoName,
      removed |-> FALSE] :
        h \in BOOLEAN, p \in Probes, f \in Folders, d \in Stores}

\* Lines 188-191: getRecordings is called; with no folder it returns [].
GetRecordings ==
    /\ fn.op = "storage"
    /\ fn.pc \in {"idle", "deleted"}
    /\ fn' = IF fn.directoryHandle
             THEN [fn EXCEPT !.pc = "reading"]
             ELSE [fn EXCEPT !.pc = "listed", !.outcome = "no-folder",
                             !.result = <<>>]
    /\ UNCHANGED <<recorderVars, app>>

\* Lines 194-200: the directory is read and its .webm files are kept.
DirectoryRead ==
    /\ fn.op = "storage"
    /\ fn.pc = "reading"
    /\ fn' = [fn EXCEPT !.pc = "metadata", !.files = fileEntries(fn.folder)]
    /\ UNCHANGED <<recorderVars, app>>

\* Lines 201-204: reading the directory throws; [] is returned.
DirectoryReadFailed ==
    /\ fn.op = "storage"
    /\ fn.pc = "reading"
    /\ fn' = [fn EXCEPT !.pc = "listed", !.outcome = "unreadable",
                        !.result = <<>>]
    /\ UNCHANGED <<recorderVars, app>>

\* Lines 207-264: the store is read, the entries are built and sorted, the
\* durations read from the files are put back.
RecordingsListed ==
    /\ fn.op = "storage"
    /\ fn.pc = "metadata"
    /\ fn' = [fn EXCEPT !.pc = "listed", !.outcome = "listed",
                        !.metadataMap = fn.db,
                        !.result = getRecordings(fn.db, fn.probe, fn.files),
                        !.db = backfilled(fn.db, fn.db, fn.probe, fn.files)]
    /\ UNCHANGED <<recorderVars, app>>

\* Lines 212, 229: the store or a file cannot be read; getRecordings
\* rejects.
MetadataReadFailed ==
    /\ fn.op = "storage"
    /\ fn.pc = "metadata"
    /\ fn' = [fn EXCEPT !.pc = "rejected"]
    /\ UNCHANGED <<recorderVars, app>>

\* Lines 268-271: deleteRecording is called; with no folder it throws.
DeleteRecording(filename) ==
    /\ fn.op = "storage"
    /\ fn.pc = "idle"
    /\ fn' = IF fn.directoryHandle
             THEN [fn EXCEPT !.pc = "removing", !.filename = filename]
             ELSE [fn EXCEPT !.pc = "threw"]
    /\ UNCHANGED <<recorderVars, app>>

\* Line 275: removeEntry resolves and the entry is out of the folder.
EntryRemoved ==
    /\ fn.op = "storage"
    /\ fn.pc = "removing"
    /\ \E i \in DOMAIN fn.folder : fn.folder[i].name = fn.filename
    /\ fn' = [fn EXCEPT !.pc = "deleting", !.removed = TRUE,
                        !.folder = SelectSeq(fn.folder,
                                             LAMBDA e : e.name # fn.filename)]
    /\ UNCHANGED <<recorderVars, app>>

\* Lines 276-278: removeEntry rejects, for an entry that is not there or
\* for one that cannot be removed; the error is logged and the folder is
\* as it was.
EntryRemoveFailed ==
    /\ fn.op = "storage"
    /\ fn.pc = "removing"
    /\ fn' = [fn EXCEPT !.pc = "deleting"]
    /\ UNCHANGED <<recorderVars, app>>

\* Lines 281-288: the record is deleted from the store and the promise
\* resolves.
MetadataDeleted ==
    /\ fn.op = "storage"
    /\ fn.pc = "deleting"
    /\ fn' = [fn EXCEPT !.pc = "deleted",
                        !.db = {r \in fn.db : r.filename # fn.filename}]
    /\ UNCHANGED <<recorderVars, app>>

\* Line 286: the store's request fails; deleteRecording rejects.
MetadataDeleteFailed ==
    /\ fn.op = "storage"
    /\ fn.pc = "deleting"
    /\ fn' = [fn EXCEPT !.pc = "rejected"]
    /\ UNCHANGED <<recorderVars, app>>

FnInputs ==
    DurationInputs \cup OverlayInputs \cup MimeInputs \cup DevicesInputs
        \cup MixInputs \cup CanvasInputs \cup StorageInputs

\* Line 210: the duration is taken when stopRecording is called.
DurationTaken ==
    /\ fn.op = "stopRecording"
    /\ fn.pc = "new"
    /\ fn' = [fn EXCEPT !.pc = "pending",
                        !.duration = RoundSeconds(fn.t1 - fn.t0)]
    /\ UNCHANGED <<recorderVars, app>>

\* Lines 212-222: onstop resolves with the duration taken at the call.
DurationResolved ==
    /\ fn.op = "stopRecording"
    /\ fn.pc = "pending"
    /\ fn' = [fn EXCEPT !.pc = "resolved"]
    /\ UNCHANGED <<recorderVars, app>>

FnInit ==
    /\ InitRecorder
    /\ app = NoApp
    /\ fn \in FnInputs

FnNext ==
    \/ DurationTaken
    \/ DurationResolved
    \/ DrawOverlay
    \/ MimeConstructed
    \/ MimeResolved
    \/ GetDevices
    \/ ProbeResolved
    \/ ProbeRejected
    \/ EnumerateResolved
    \/ EnumerateRejected
    \/ AudioCollected
    \/ AudioCombined
    \/ CompositingStarted
    \/ CompositingResolved
    \/ GetRecordings
    \/ DirectoryRead
    \/ DirectoryReadFailed
    \/ RecordingsListed
    \/ MetadataReadFailed
    \/ \E filename \in {RecA, RecB, Gone} : DeleteRecording(filename)
    \/ EntryRemoved
    \/ EntryRemoveFailed
    \/ MetadataDeleted
    \/ MetadataDeleteFailed

FnSpec == FnInit /\ [][FnNext]_vars

----------------------------------------------------------------------------
\* app.js, the camera preview: lines 119-240 and what handleStartRecording
\* and handleStopRecording do with it.

MaxPreviews == 3    \* calls of recorder.startCameraPreview
Previews == 1 .. MaxPreviews

\* app.js in the 'ready' view before populateDevices has run: the toggle and
\* the select of the camera, the module's cameraPreviewStream, and for each
\* call of recorder.startCameraPreview its getUserMedia request ("pending")
\* or its stream ("live", "stopped") or failure ("failed").
PreviewApp ==
    [state |-> "ready", cameraToggle |-> FALSE, cameraSelect |-> FALSE,
     cameraPreviewStream |-> NULL, previews |-> [p \in Previews |-> "none"]]

\* The next call of recorder.startCameraPreview.
HasNextPreview(a) == \E p \in Previews : a.previews[p] = "none"
NextPreview(a) ==
    CHOOSE p \in Previews :
        /\ a.previews[p] = "none"
        /\ \A q \in Previews : q < p => a.previews[q] # "none"

\* stopCameraPreview, lines 231-240.
stopCameraPreview(a) ==
    IF a.cameraPreviewStream # NULL
    THEN [a EXCEPT !.previews[a.cameraPreviewStream] = "stopped",
                   !.cameraPreviewStream = NULL]
    ELSE a

\* The request of line 223, made by the app as it is.
requestPreview(a) ==
    IF a.cameraSelect
    THEN [a EXCEPT !.previews[NextPreview(a)] = "pending"]
    ELSE a

\* startCameraPreview, lines 217-223, up to its await.
startCameraPreview(a) == requestPreview(stopCameraPreview(a))

\* handleCameraToggle, lines 197-206: the user has set the toggle.
CameraToggle(checked) ==
    /\ app.state = "ready"
    /\ HasNextPreview(app)
    /\ app' = IF checked
              THEN startCameraPreview([app EXCEPT !.cameraToggle = TRUE])
              ELSE stopCameraPreview([app EXCEPT !.cameraToggle = FALSE])
    /\ UNCHANGED <<recorderVars, fn>>

\* handleCameraChange, lines 209-214: the user has chosen a camera or none.
CameraChange(value) ==
    /\ app.state = "ready"
    /\ HasNextPreview(app)
    /\ app' = IF app.cameraToggle
              THEN startCameraPreview([app EXCEPT !.cameraSelect = value])
              ELSE [app EXCEPT !.cameraSelect = value]
    /\ UNCHANGED <<recorderVars, fn>>

\* populateDevices, lines 141-173: the select is filled (a camera is chosen
\* if there is one), the toggle is restored from the settings (enabled is
\* what they hold, true by default), and the preview is started.
PopulateDevices(cameras, enabled) ==
    /\ app.state = "ready"
    /\ HasNextPreview(app)
    /\ app' = IF enabled /\ cameras
              THEN startCameraPreview([app EXCEPT !.cameraSelect = cameras,
                                                  !.cameraToggle = enabled])
              ELSE [app EXCEPT !.cameraSelect = cameras,
                               !.cameraToggle = enabled]
    /\ UNCHANGED <<recorderVars, fn>>

\* getUserMedia of the call p resolves: recorder.startCameraPreview returns
\* the stream and line 223 assigns it.
PreviewResolved(p) ==
    /\ app.previews[p] = "pending"
    /\ app' = [app EXCEPT !.previews[p] = "live", !.cameraPreviewStream = p]
    /\ UNCHANGED <<recorderVars, fn>>

\* getUserMedia of the call p rejects: recorder.startCameraPreview returns
\* null and line 223 assigns it.
PreviewRejected(p) ==
    /\ app.previews[p] = "pending"
    /\ app' = [app EXCEPT !.previews[p] = "failed",
                          !.cameraPreviewStream = NULL]
    /\ UNCHANGED <<recorderVars, fn>>

\* handleStartRecording, lines 384-405: the previews are stopped and the
\* recording view is shown.
PreviewStartRecording ==
    /\ app.state = "ready"
    /\ app' = [stopCameraPreview(app) EXCEPT !.state = "recording"]
    /\ UNCHANGED <<recorderVars, fn>>

\* handleStopRecording, lines 437-446: the ready view, and the camera
\* preview again if the toggle is checked.
PreviewStopRecording ==
    /\ app.state = "recording"
    /\ HasNextPreview(app)
    /\ app' = IF app.cameraToggle
              THEN startCameraPreview([app EXCEPT !.state = "ready"])
              ELSE [app EXCEPT !.state = "ready"]
    /\ UNCHANGED <<recorderVars, fn>>

PreviewInit ==
    /\ InitRecorder
    /\ app = PreviewApp
    /\ fn = NoFn

PreviewNext ==
    \/ \E checked \in BOOLEAN : CameraToggle(checked)
    \/ \E value \in BOOLEAN : CameraChange(value)
    \/ \E cameras, enabled \in BOOLEAN : PopulateDevices(cameras, enabled)
    \/ \E p \in Previews : PreviewResolved(p)
    \/ \E p \in Previews : PreviewRejected(p)
    \/ PreviewStartRecording
    \/ PreviewStopRecording

PreviewSpec == PreviewInit /\ [][PreviewNext]_vars

----------------------------------------------------------------------------
\* What the claims speak of

\* The idle values of the module state of recorder.js.
Idle ==
    /\ mediaRecorder = NULL
    /\ recordedChunks = <<>>
    /\ displayStream = NULL
    /\ micStream = NULL
    /\ cameraStream = NULL
    /\ audioContext = NULL
    /\ startTime = NULL

\* The compositor is stopped: no surface, no output, no render callback.
CompositorStopped ==
    /\ animationId = NULL
    /\ displayVideo = NULL
    /\ cameraVideo = NULL
    /\ outputStream = NULL

\* A stream the module acquired and whose tracks it has not stopped.
Held(s) == streams[s].acquired /\ streams[s].stops = 0

\* The calls that hold a capture device.
Holders == {c \in Calls : \E s \in OwnStreams(c) : Held(s) /\ ~streams[s].ended}

\* The last task was a call of stopRecording.
StopInvoked ==
    \/ event.kind = "accepted"
    \/ event.kind = "rejected" /\ event.err = "NoActiveRecording"

----------------------------------------------------------------------------
\* C1: whenever no session exists (no start under way, the module's recorder
\* neither recording nor waiting for its stop event), every stream that was
\* acquired has had its tracks stopped exactly once; and no stream is ever
\* stopped twice.
C1_ReleasedExactlyOnce ==
    /\ \A s \in Streams : streams[s].stops <= 1
    /\ ~SessionActive =>
           \A s \in Streams : streams[s].acquired => streams[s].stops = 1

\* C2: when startRecording throws, the error is one the caller can see and,
\* at that moment, every stream the call acquired is stopped, the audio
\* context it made is closed, the compositor is stopped and the module state
\* is idle.
C2_FailedStartRollsBack ==
    event.kind = "threw" =>
        /\ event.err # "none"
        /\ \A s \in OwnStreams(event.id) :
               streams[s].acquired => streams[s].stops = 1
        /\ contexts[event.id].created => contexts[event.id].closes = 1
        /\ CompositorStopped
        /\ Idle

\* C3: a startRecording call made while a session exists acquires no stream.
C3_ReentrantStartAcquiresNothing ==
    \A c \in Calls :
        calls[c].reentrant => \A s \in OwnStreams(c) : ~streams[s].acquired

\* C4: the capture devices held at any time belong to one call, and none is
\* held when no session exists.
C4_OneSessionOwnsCapture ==
    /\ Cardinality(Holders) <= 1
    /\ ~SessionActive => Holders = {}

\* C5: a stopRecording call made when the module's recorder is null or
\* inactive is rejected with the no-active-recording error and changes
\* nothing: no module state, no stream, no recorder, no compositor state, no
\* pending promise.
C5_StopWhenIdleRejects ==
    [][(StopInvoked' /\ ~Recording(Heap)) =>
           /\ event'.kind = "rejected"
           /\ event'.err = "NoActiveRecording"
           /\ UNCHANGED <<heapVars, calls, stopCalls>>]_vars

\* C5, its case: a stop call was rejected while the module still referred to
\* an (inactive) recorder and held a display stream.
C5_Witness ==
    /\ event.kind = "rejected"
    /\ event.err = "NoActiveRecording"
    /\ mediaRecorder # NULL
    /\ displayStream # NULL

\* C6: of the stopRecording calls made on one recorder, by the caller or by
\* onended, at most one passes the guard; the promises pending at one time are
\* of different recorders; and the handlers of a call run cleanup at most
\* once, exactly once when the call resolves or is rejected by the encoder;
\* and the call that passed the guard, in a run of sessions started one
\* after the other, is the one the stop event of its recorder settles.
C6_OneTeardown ==
    /\ \A r \in Calls : recorders[r].accepted <= 1
    /\ \A s, u \in StopCalls :
           (/\ s # u
            /\ stopCalls[s].status = "pending"
            /\ stopCalls[u].status = "pending")
           => stopCalls[s].rec # stopCalls[u].rec
    /\ event.cleanups <= 1
    /\ event.kind = "resolved" => event.cleanups = 1
    /\ (event.kind = "rejected" /\ event.err = "EncodingFailure") =>
           event.cleanups = 1
    /\ (\A c \in Calls : ~calls[c].reentrant) =>
           \A s \in StopCalls :
               stopCalls[s].status = "pending" =>
                   /\ recorders[stopCalls[s].rec].flush
                   /\ recorders[stopCalls[s].rec].handler = s

\* C6, its case: the auto-stop of onended waits for the stop event and a
\* stopRecording call of the caller has just been rejected.
C6_Witness ==
    /\ event.kind = "rejected"
    /\ event.err = "NoActiveRecording"
    /\ event.by = "caller"
    /\ \E s \in StopCalls :
           /\ stopCalls[s].status = "pending"
           /\ stopCalls[s].by = "onended"
           /\ stopCalls[s].rec = mediaRecorder

\* C7: when the stop that onended made resolves, the module is idle, every
\* recorder is finalized and every acquired stream is released (stopped, or
\* ended by the user).
C7_AutoStopReachesIdle ==
    (event.kind = "resolved" /\ event.by = "onended") =>
        /\ Idle
        /\ CompositorStopped
        /\ \A r \in Calls : recorders[r].state # "recording"
        /\ \A s \in Streams : ~(Held(s) /\ ~streams[s].ended)

\* C8: a recorder that failed before any stop call (inactive, no stop
\* accepted on it) has been torn down: the module does not refer to it and
\* the streams of its session are stopped.
C8_EncoderErrorTearsDown ==
    \A r \in Calls :
        (recorders[r].state = "inactive" /\ recorders[r].accepted = 0) =>
            /\ mediaRecorder # r
            /\ \A s \in OwnStreams(r) : ~Held(s)

\* C9: a stop call accepted on an active session stays pending only while
\* the stop event of its recorder is still to come, and when it resolves, it
\* carries the mimeType of its recorder and the module is idle, the
\* compositor stopped.
C9_StopResolvesIdle ==
    /\ \A s \in StopCalls :
           stopCalls[s].status = "pending" => recorders[stopCalls[s].rec].flush
    /\ event.kind = "resolved" =>
           /\ event.mimeType = event.rec
           /\ Idle
           /\ CompositorStopped

\* C10: the blob a stop call resolves with is the concatenation, in delivery
\* order, of the bytes its recorder delivered up to and with the stop event.
C10_ArtifactIsDelivered ==
    event.kind = "resolved" => event.blob = event.delivered

\* C11: whenever a stop resolves, by the caller's call or by the auto-stop of
\* onended, its blob and duration are what storage.saveRecording is given.
C11_ArtifactHandedToStorage ==
    event.kind = "resolved" =>
        app.saveArgs = <<[blob |-> event.blob, duration |-> event.duration]>>

\* C13: what updateTimerDisplay reads from getElapsedTime is 0 when no
\* session is in progress, and otherwise the rounded seconds from startTime
\* to some clock value.
C13_ElapsedZeroWhenIdle ==
    app.ticked =>
        IF SessionActive
        THEN \E t \in Clock :
                 t >= startTime /\ app.elapsed = Duration(t, startTime)
        ELSE app.elapsed = 0

\* C20: a failed start shows the permission message exactly for
\* NotAllowedError and the generic one otherwise, with the start button
\* enabled and the view 'ready'; a failed stop shows the generic message; and
\* after a failed save the generic message is shown and the artifact that
\* stopRecording produced is still held.
C20_FailuresSurfaceKeepArtifact ==
    /\ event.kind = "threw" =>
           /\ app.alert = IF event.err = "NotAllowedError"
                          THEN "PermissionDenied" ELSE "FailedStart"
           /\ ~app.startDisabled
           /\ app.state = "ready"
    /\ app.alert = "PermissionDenied" =>
           event.kind = "threw" /\ event.err = "NotAllowedError"
    /\ (event.kind = "rejected" /\ event.by = "caller") =>
           app.alert = "FailedSave"
    /\ (app.alert = "FailedSave" /\ event.kind = "none") =>
           app.artifact # <<>>

\* C12: the task in which the microphone or the camera request of a call is
\* rejected does not end the call with that error: the call goes on to its
\* next step, and fails only if a later line throws; unless it does, no track
\* of the display stream is stopped and the module's references to the
\* display stream and to the source that failed are as before; and when the
\* call returns, its recorder is recording.
C12_AcquisitionFailureNotFatal ==
    [][\A c \in Calls :
        LET micFailed == /\ calls[c].pc = "mic"
                         /\ calls'[c].pc # "mic"
                         /\ ~streams'[MicOf(c)].acquired
            cameraFailed == /\ calls[c].pc = "camera"
                            /\ calls'[c].pc # "camera"
                            /\ ~streams'[CameraOf(c)].acquired
        IN (micFailed \/ cameraFailed) =>
            /\ calls'[c].pc \in {"camera", "composite", "returned", "threw"}
            /\ calls'[c].pc = "threw" =>
                   /\ event'.id = c
                   /\ event'.err \in {"NotSupportedError", "TypeError"}
            /\ calls'[c].pc # "threw" =>
                   /\ streams'[DisplayOf(c)].stops = streams[DisplayOf(c)].stops
                   /\ displayStream' = displayStream
                   /\ micFailed => micStream' = micStream
                   /\ cameraFailed => cameraStream' = cameraStream
            /\ calls'[c].pc = "returned" =>
                   /\ mediaRecorder' = c
                   /\ recorders'[c].state = "recording"
      ]_vars

\* C12, its case: the microphone of a call was refused, the call holds its
\* display stream and now waits for the camera.
C12_Witness ==
    \E c \in Calls :
        /\ calls[c].pc = "camera"
        /\ calls[c].micDeviceId
        /\ ~streams[MicOf(c)].acquired
        /\ Held(DisplayOf(c))
        /\ displayStream = DisplayOf(c)

\* C14: the duration a stop resolves with is the one taken when stopRecording
\* was called at t1: it is not negative and within one second of the
\* milliseconds t1 - t0 from the start, being the nearest whole second.
C14_DurationWithinOneSecond ==
    (fn.op = "stopRecording" /\ fn.pc \in {"pending", "resolved"}) =>
        /\ fn.duration >= 0
        /\ fn.duration * SecondMs - (fn.t1 - fn.t0) <= SecondMs
        /\ (fn.t1 - fn.t0) - fn.duration * SecondMs <= SecondMs
        /\ 2 * (fn.duration * SecondMs - (fn.t1 - fn.t0)) <= SecondMs
        /\ 2 * ((fn.t1 - fn.t0) - fn.duration * SecondMs) <= SecondMs

\* C14, its case: a stop called 1.5 s after the start resolved later.
C14_Witness ==
    /\ fn.op = "stopRecording"
    /\ fn.pc = "resolved"
    /\ fn.t1 - fn.t0 = SecondMs + TickMs
    /\ fn.t2 > fn.t1
    /\ fn.duration = 2

\* C15: stopCompositing called in any state, also twice in a row or with
\* compositing never started, leaves displayVideo, cameraVideo and
\* outputStream null and no render callback scheduled, and a second call
\* changes nothing more.
C15_StopCompositingIdempotent ==
    LET h == stopCompositing(Heap)
    IN /\ stopCompositing(h) = h
       /\ h.animationId = NULL
       /\ h.displayVideo = NULL
       /\ h.cameraVideo = NULL
       /\ h.outputStream = NULL
       /\ h.rafPending = {}

\* The teardown of the session of call c has closed the audio context the
\* session created, if any, and left the compositor stopped.
TornDown(c) ==
    /\ contexts[c].created => contexts[c].closes >= 1
    /\ CompositorStopped

\* C16: when a start fails, when a stop resolves and when the encoder fails
\* (before a stop call or during one), stopCompositing has run and the audio
\* context the session created is closed; a session without compositing or
\* mixing is torn down the same way.
C16_TeardownStopsCompositorAndMixer ==
    /\ event.kind = "threw" => TornDown(event.id)
    /\ event.kind = "resolved" => TornDown(event.rec)
    /\ (event.kind = "rejected" /\ event.err = "EncodingFailure") =>
           TornDown(event.rec)
    /\ \A r \in Calls :
           (recorders[r].state = "inactive" /\ recorders[r].accepted = 0) =>
               TornDown(r)

\* C17: for a 1280x720 frame, a 320x240 camera, size ratio 0.2 and position
\* bottom-left the overlay is 256 wide, 192 high, at x = CAMERA_MARGIN and
\* y = 720 - 192 - CAMERA_MARGIN; for every input and each of the four
\* positions the width is round(frame width * ratio), the height is the one
\* nearest to the camera's aspect ratio, and the two edges the position
\* names lie CAMERA_MARGIN from the frame's edges.
C17_OverlayGeometry ==
    (fn.op = "drawCameraOverlay" /\ fn.pc = "drawn"
        /\ fn.position \in Positions) =>
        LET r == fn.rect
            W == fn.canvas.width
            H == fn.canvas.height
            exact == W * fn.sizeRatio.num
            left == r.x
            right == W - (r.x + r.width)
            top == r.y
            bottom == H - (r.y + r.height)
            off == r.height * fn.video.videoWidth
                       - r.width * fn.video.videoHeight
        IN /\ 2 * (r.width * fn.sizeRatio.den - exact) <= fn.sizeRatio.den
           /\ 2 * (exact - r.width * fn.sizeRatio.den) <= fn.sizeRatio.den
           /\ 2 * off <= fn.video.videoWidth
           /\ 2 * (0 - off) <= fn.video.videoWidth
           /\ fn.position = "top-left" =>
                  left = CAMERA_MARGIN /\ top = CAMERA_MARGIN
           /\ fn.position = "top-right" =>
                  right = CAMERA_MARGIN /\ top = CAMERA_MARGIN
           /\ fn.position = "bottom-right" =>
                  right = CAMERA_MARGIN /\ bottom = CAMERA_MARGIN
           /\ fn.position = "bottom-left" =>
                  left = CAMERA_MARGIN /\ bottom = CAMERA_MARGIN
           /\ (/\ fn.position = CAMERA_POSITION
               /\ fn.sizeRatio = CAMERA_SIZE_RATIO
               /\ fn.canvas = [width |-> 1280, height |-> 720]
               /\ fn.video = [videoWidth |-> 320, videoHeight |-> 240]) =>
                  r = [width |-> 256, height |-> 192, x |-> CAMERA_MARGIN,
                       y |-> 720 - 192 - CAMERA_MARGIN]

\* C17, its case: the overlay of the example has been drawn.
C17_Witness ==
    /\ fn.op = "drawCameraOverlay"
    /\ fn.pc = "drawn"
    /\ fn.position = "bottom-left"
    /\ fn.sizeRatio = CAMERA_SIZE_RATIO
    /\ fn.canvas = [width |-> 1280, height |-> 720]
    /\ fn.video = [videoWidth |-> 320, videoHeight |-> 240]
    /\ fn.rect.width = 256
    /\ fn.rect.height = 192

\* The preference order of the encoding types: vp9 with opus, vp9, vp8 with
\* opus, vp8, bare webm.
PreferenceList ==
    <<"video/webm;codecs=vp9,opus", "video/webm;codecs=vp9",
      "video/webm;codecs=vp8,opus", "video/webm;codecs=vp8", "video/webm">>

\* C18: the type chosen for the encoder is the first of the preference list
\* that the platform supports, and "video/webm" when it supports none; the
\* mimeType a stop resolves with is the one the encoder was constructed
\* with.
C18_FirstSupportedMimeType ==
    (fn.op = "getSupportedMimeType" /\ fn.pc # "new") =>
        LET S == {i \in DOMAIN PreferenceList :
                      PreferenceList[i] \in fn.isTypeSupported}
        IN /\ S = {} => fn.chosen = "video/webm"
           /\ S # {} =>
                  \E i \in S : /\ \A j \in S : i <= j
                               /\ fn.chosen = PreferenceList[i]
           /\ fn.pc = "resolved" => fn.mimeType = fn.chosen

\* C18, its case: vp9 is not supported, vp8 is, with and without opus, and a
\* stop has resolved with vp8 and opus.
C18_Witness ==
    /\ fn.op = "getSupportedMimeType"
    /\ fn.pc = "resolved"
    /\ fn.isTypeSupported = {"video/webm;codecs=vp8,opus",
                             "video/webm;codecs=vp8", "video/webm"}
    /\ fn.mimeType = "video/webm;codecs=vp8,opus"

\* The devices of one kind as getDevices is to list them: in the platform's
\* order, a device without label named by its kind and the first 8
\* characters of its id.
Listed(devices, kind, name) ==
    LET found == SelectSeq(devices, LAMBDA d : d.kind = kind)
    IN [i \in DOMAIN found |->
           [deviceId |-> found[i].deviceId,
            label |-> IF found[i].label # <<>>
                      THEN found[i].label
                      ELSE name \o [j \in 1 .. (IF Len(found[i].deviceId) < 8
                                                THEN Len(found[i].deviceId)
                                                ELSE 8) |->
                                        found[i].deviceId[j]]]]

\* C19: getDevices ends by returning, never by raising; it returns empty lists
\* when the enumeration fails; it enumerates also when the permission probe
\* fails; a device without label is listed with its kind and the first 8
\* characters of its id; the tracks of the probe's stream are stopped when
\* it returns.
C19_GetDevicesNeverRaises ==
    fn.op = "getDevices" =>
        /\ fn.pc \in {"new", "probe", "enumerate", "returned"}
        /\ (fn.pc = "returned" /\ fn.enumerated
                /\ fn.enumeration = "rejects") => fn.result = NoDevices
        /\ (fn.pc \in {"enumerate", "returned"} /\ fn.mediaDevices
                /\ fn.probe = "rejects") => fn.enumerated
        /\ (fn.pc = "returned" /\ fn.mediaDevices
                /\ fn.enumeration = "resolves") =>
               /\ fn.result.microphones =
                      Listed(fn.devices, "audioinput", Microphone)
               /\ fn.result.cameras = Listed(fn.devices, "videoinput", Camera)
        /\ fn.pc = "returned" =>
               \A k \in {"audio", "video"} :
                   fn.tracks[k].live => fn.tracks[k].stops >= 1

\* C19, its case: the probe failed, and the list returned names a microphone
\* without label by the first 8 of the 10 characters of its id.
C19_Witness ==
    /\ fn.op = "getDevices"
    /\ fn.pc = "returned"
    /\ fn.probe = "rejects"
    /\ Len(fn.result.microphones) = 1
    /\ fn.result.microphones[1].label =
           Microphone \o <<"0", "1", "2", "3", "4", "5", "6", "7">>
    /\ Len(fn.result.microphones[1].deviceId) = 10

\* C21: a call waits for a microphone only if it was given a micDeviceId, and
\* for a camera only if cameraEnabled and cameraDeviceId were given; it
\* records the compositor's output if and only if it acquired a camera
\* stream itself, and the display track otherwise.
C21_CompositesOwnCameraOnly ==
    /\ \A c \in Calls :
           /\ calls[c].pc = "mic" => calls[c].micDeviceId
           /\ calls[c].pc = "camera" => calls[c].camera
           /\ calls[c].pc = "composite" => streams[CameraOf(c)].acquired
    /\ event.kind = "returned" =>
           (outputStream = event.id <=> streams[CameraOf(event.id)].acquired)

\* The times the track x was connected to the destination.
Connected(x) ==
    Cardinality({i \in DOMAIN fn.final.connections :
                     fn.final.connections[i] = x})

\* C22: the stream given to the encoder has the mixed audio track if and only
\* if the display stream has an audio track or a microphone stream was
\* acquired; then one audio context and one destination were created and
\* each audio track of those streams was connected once, and nothing else;
\* otherwise the stream has no audio track and no context was created.
C22_MixedAudioIffCollected ==
    (fn.op = "combineAudioTracks" /\ fn.pc = "combined") =>
        LET mic == fn.micDeviceId /\ fn.micGranted
            collected == fn.displayAudio > 0 \/ mic
            tracks == {<<"display", i>> : i \in 1 .. fn.displayAudio}
                          \cup {<<"mic", i>> :
                                    i \in 1 .. (IF mic THEN fn.micAudio ELSE 0)}
        IN /\ fn.final.audioTracks = (IF collected THEN 1 ELSE 0)
           /\ fn.final.contexts = (IF collected THEN 1 ELSE 0)
           /\ fn.final.destinations = (IF collected THEN 1 ELSE 0)
           /\ \A x \in tracks : Connected(x) = 1
           /\ Len(fn.final.connections) = Cardinality(tracks)

\* C22, its case: a display stream with one audio track and a microphone
\* stream with two were mixed.
C22_Witness ==
    /\ fn.op = "combineAudioTracks"
    /\ fn.pc = "combined"
    /\ fn.displayAudio = 1
    /\ fn.micDeviceId
    /\ fn.micGranted
    /\ fn.micAudio = 2
    /\ fn.final.contexts = 1
    /\ Len(fn.final.connections) = 3

\* C23: at most one render tick is pending, and animationId names it: the
\* pending ticks are none when animationId is null and the one it names
\* otherwise, whatever calls of startCompositing and stopCompositing the
\* recorder has made.
C23_OneRenderTickPending ==
    /\ Cardinality(rafPending) <= 1
    /\ rafPending = (IF animationId = NULL THEN {} ELSE {animationId})

\* C24: a call that waits for startCompositing has no output yet; when
\* startCompositing has resolved the render loop runs, and it keeps a tick
\* pending while the output exists; once stopCompositing has dropped the
\* display surface no tick is left to run.
C24_TicksOnlyWhileCompositing ==
    /\ \A c \in Calls : calls[c].pc = "composite" => outputStream # c
    /\ (event.kind = "returned" /\ outputStream = event.id) =>
           animationId \in rafPending
    /\ outputStream # NULL => animationId \in rafPending
    /\ displayVideo = NULL => rafPending = {}

\* C25: once startCompositing has resolved, the frame buffer is 1920x1080 if
\* the display surface reported zero dimensions, and its width and height
\* are positive whatever the surface reported.
C25_FrameBufferNotDegenerate ==
    (fn.op = "startCompositing" /\ fn.pc = "resolved") =>
        /\ (fn.video.videoWidth = 0 /\ fn.video.videoHeight = 0) =>
               fn.canvas = [width |-> 1920, height |-> 1080]
        /\ fn.canvas.width > 0
        /\ fn.canvas.height > 0

\* C25, its case: resolved for a surface that reported no dimensions.
C25_Witness ==
    /\ fn.op = "startCompositing"
    /\ fn.pc = "resolved"
    /\ fn.video = [videoWidth |-> 0, videoHeight |-> 0]
    /\ fn.canvas.width = 1920

\* HTMLMediaElement.readyState: 0 to 4, HAVE_CURRENT_DATA is 2.
HAVE_CURRENT_DATA == 2
ReadyStates == 0 .. 4

\* What one run of render does, lines 57-69, when the display surface has
\* the readyState displayReady and the camera surface cameraReady: the read
\* of displayVideo.readyState throws if displayVideo is null.
renderOutcome(h, displayReady, cameraReady) ==
    IF h.displayVideo = NULL
    THEN [raised |-> TRUE, display |-> FALSE, overlay |-> FALSE,
          scheduled |-> FALSE]
    ELSE [raised |-> FALSE, display |-> displayReady >= HAVE_CURRENT_DATA,
          overlay |-> h.cameraVideo # NULL /\ cameraReady >= HAVE_CURRENT_DATA,
          scheduled |-> render(h).animationId \in render(h).rafPending]

\* C26: whenever a render tick is pending, running it draws the display
\* surface exactly if it is bound and has a frame, draws the overlay exactly
\* if a camera surface is bound and has a frame, raises no error and
\* schedules the next tick.
C26_DrawsOnlyReadySurfaces ==
    \A n \in rafPending, displayReady \in ReadyStates, cameraReady \in ReadyStates :
        LET o == renderOutcome(Heap, displayReady, cameraReady)
        IN /\ ~o.raised
           /\ o.scheduled
           /\ o.display <=>
                  (displayVideo # NULL /\ displayReady >= HAVE_CURRENT_DATA)
           /\ o.overlay <=>
                  (cameraVideo # NULL /\ cameraReady >= HAVE_CURRENT_DATA)

\* Nothing is under way that could still tear a session down by itself: no
\* startRecording call is suspended and no recorder owes its stop event.
NoTaskPending ==
    /\ \A c \in Calls : ~InFlight(c)
    /\ \A r \in Calls : ~recorders[r].flush

\* C27: when the display track of a call's stream has ended and nothing is
\* under way any more, the session of that call is over without a stop
\* call: its streams are released, its recorder does not record, its audio
\* context is closed and the module does not refer to them.
C27_EndedDisplayReachesIdle ==
    \A c \in Calls :
        (streams[DisplayOf(c)].ended /\ NoTaskPending) =>
            /\ \A s \in OwnStreams(c) :
                   streams[s].acquired =>
                       (streams[s].stops >= 1 \/ streams[s].ended)
            /\ recorders[c].state # "recording"
            /\ contexts[c].created => contexts[c].closes >= 1
            /\ mediaRecorder # c
            /\ displayStream # DisplayOf(c)

\* C28: between tasks startTime is set exactly when mediaRecorder is, and
\* with mediaRecorder set displayStream is set too.
C28_StartTimeIffRecorder ==
    /\ startTime # NULL <=> mediaRecorder # NULL
    /\ mediaRecorder # NULL => displayStream # NULL

\* C28, its case: a stop call has settled with a teardown while another
\* startRecording call, made during the session, went on to record.
C28_Witness ==
    /\ \E s \in StopCalls : stopCalls[s].status = "settled"
    /\ \E c \in Calls : calls[c].reentrant /\ calls[c].pc = "returned"
    /\ mediaRecorder # NULL
    /\ startTime # NULL
    /\ \E r \in Calls : r # mediaRecorder /\ recorders[r].state = "inactive"

\* C29: no chunk kept is empty, and the artifact a stop resolves with holds
\* only bytes that the recorder of that stop delivered.
C29_ArtifactOfOwnEncoder ==
    /\ \A i \in DOMAIN recordedChunks : recordedChunks[i] # <<>>
    /\ event.kind = "resolved" =>
           \A i \in DOMAIN event.blob : event.blob[i][1] = event.rec

\* No handler of app.js is suspended.
HandlersSettled == app.starting = NULL /\ app.stopping = "idle"

\* C30: once the handlers of app.js have settled and nothing is under way in
\* the recorder, the view is 'recording' exactly if a session is in
\* progress; without a session the view is 'ready', the start button is
\* enabled and the timer is stopped.
C30_ViewFollowsSession ==
    (app.state # "loading" /\ HandlersSettled /\ NoTaskPending) =>
        /\ app.state = "recording" <=> SessionActive
        /\ ~SessionActive =>
               /\ app.state = "ready"
               /\ ~app.startDisabled
               /\ ~app.timerInterval

\* C31: every camera preview stream that is live is the one
\* cameraPreviewStream refers to, and none is live in the recording view.
C31_NoOrphanedPreview ==
    (app.state \in {"ready", "recording"} /\ "previews" \in DOMAIN app) =>
        /\ \A p \in Previews :
               app.previews[p] = "live" => app.cameraPreviewStream = p
        /\ app.state = "recording" =>
               \A p \in Previews : app.previews[p] # "live"

\* C32: the rectangle drawCameraOverlay computes lies inside the frame buffer
\* for every position and size ratio, and a position that is none of the
\* four is drawn as bottom-left.
C32_OverlayInsideFrame ==
    (fn.op = "drawCameraOverlay" /\ fn.pc = "drawn") =>
        /\ 0 <= fn.rect.x
        /\ 0 <= fn.rect.y
        /\ fn.rect.x + fn.rect.width <= fn.canvas.width
        /\ fn.rect.y + fn.rect.height <= fn.canvas.height
        /\ fn.position \notin Positions =>
               /\ fn.rect.x = CAMERA_MARGIN
               /\ fn.rect.y = fn.canvas.height - fn.rect.height - CAMERA_MARGIN

\* The .webm files present in a folder.
WebmFiles(folder) ==
    {e \in {folder[i] : i \in DOMAIN folder} :
        e.kind = "file" /\ endsWith(e.name, ".webm")}

\* What a file with no metadata record is listed with.
FromFile(file, probe) ==
    [filename |-> file.name,
     duration |-> IF file.size > 0 THEN probe ELSE 0,
     timestamp |-> file.lastModified,
     title |-> file.name,
     size |-> file.size]

\* The result has one entry for each .webm file of the folder and no other,
\* latest first; a file the store knows nothing of is listed from the file.
ListsFolder ==
    /\ {fn.result[i].filename : i \in DOMAIN fn.result}
           = {e.name : e \in WebmFiles(fn.folder)}
    /\ Len(fn.result) = Cardinality(WebmFiles(fn.folder))
    /\ \A i, j \in DOMAIN fn.result :
           i < j => fn.result[i].timestamp >= fn.result[j].timestamp
    /\ \A r \in fn.metadataMap :
           (\A e \in WebmFiles(fn.folder) : e.name # r.filename) =>
               \A i \in DOMAIN fn.result : fn.result[i].filename # r.filename
    /\ \A e \in WebmFiles(fn.folder) :
           (\A r \in fn.metadataMap : r.filename # e.name) =>
               \E i \in DOMAIN fn.result : fn.result[i] = FromFile(e, fn.probe)

\* C33, as the code has it: when the folder is selected and could be read,
\* getRecordings lists exactly the .webm files present in it, one entry per
\* file, sorted by timestamp descending; a metadata record with no matching
\* file is not listed and a file with no metadata record is listed with
\* the values of the file.  With no folder selected, and when reading the
\* folder failed, the result is the empty list.
C33_ListsReadableFolder ==
    (fn.op = "storage" /\ fn.pc = "listed") =>
        IF fn.outcome = "listed" THEN ListsFolder ELSE fn.result = <<>>

\* A folder read with two recordings the store knows nothing of, listed in
\* the other order than the folder yields them, while the store holds a
\* record whose file is gone.
C33_Witness ==
    /\ fn.op = "storage"
    /\ fn.pc = "listed"
    /\ fn.outcome = "listed"
    /\ fn.filename = NoName
    /\ Len(fn.result) = MaxEntries
    /\ fn.result[1].filename = fn.folder[2].name
    /\ fn.result[1].timestamp > fn.result[2].timestamp
    /\ fn.metadataMap # {}
    /\ \A r \in fn.metadataMap : r.filename = Gone

\* C33, as stated: getRecordings lists exactly the .webm files present in
\* the selected folder, one entry per file, sorted by timestamp descending;
\* a metadata record with no matching file is never listed, a file with no
\* metadata record is listed with values derived from the file; with no
\* folder selected the result is the empty list.
C33_ListsSelectedFolder ==
    (fn.op = "storage" /\ fn.pc = "listed") =>
        IF fn.directoryHandle THEN ListsFolder ELSE fn.result = <<>>

\* C34: after deleteRecording(filename) has resolved, a following
\* getRecordings does not list filename: the file is gone from the folder
\* and its metadata record is removed, also when removing the file entry
\* reported an error.
C34_DeletedIsGone ==
    (fn.op = "storage" /\ fn.pc = "listed" /\ fn.outcome = "listed"
         /\ fn.filename # NoName) =>
        /\ \A i \in DOMAIN fn.result : fn.result[i].filename # fn.filename
        /\ \A i \in DOMAIN fn.folder : fn.folder[i].name # fn.filename
        /\ ~hasMeta(fn.db, fn.filename)

====
